---- MODULE Spec2Model ----
(***************************************************************************)
(* Model of scripts/fund_server.py: the TTL cache (get_cached, set_cache), *)
(* the three source adapters, get_fund_data (concurrent fetch, merge,      *)
(* store) and the batch route get_funds.                                   *)
(*                                                                         *)
(* Floats are modelled as integers, time as whole seconds.                 *)
(***************************************************************************)
EXTENDS Integers, Sequences, FiniteSets, TLC

VARIABLES
    now,         \* wall clock: time.time() / datetime.now()
    cache,       \* the module-level dict `cache`, keyed by cache key
    cache_lock,  \* holder of `cache_lock`, or NoHolder
    pc,          \* position of each request thread inside get_fund_data
    code,        \* the `code` argument of each thread's call
    cached,      \* the local `cached` of each call
    fut,         \* the three adapter futures of each call
    result,      \* the local `result` of each call
    ret,         \* what the call returned (or that it raised)
    calls,       \* number of get_fund_data calls started so far
    launches,    \* per code: how many times the adapter set was launched
    fetches,     \* per thread: adapter-set launches made by its current call
    seen,        \* per thread: the entry get_cached found, and its age
    bpc,         \* position of the get_funds handler
    raw,         \* get_funds: the `codes` argument split at commas
    codes,       \* get_funds: the local list `codes` after filtering
    tasks,       \* get_funds: the futures of the worker pool, in order
    resp,        \* get_funds: the response
    completed,   \* cache keys for which a fetch-and-merge reached set_cache
    apc,         \* position of the FundAPI.fetch_fund_data call
    acode,       \* fetch_fund_data: the `code` argument
    afutures,    \* fetch_fund_data: the four adapter futures
    aresults,    \* fetch_fund_data: the local dict `results`
    aret         \* fetch_fund_data: the returned dict

batchVars == <<bpc, raw, codes, tasks, resp>>
threadVars == <<pc, code, cached, fut, result, ret, calls, fetches, seen>>
apiVars == <<apc, acode, afutures, aresults, aret>>

vars == <<now, cache, cache_lock, pc, code, cached, fut, result, ret,
          calls, launches, fetches, seen, bpc, raw, codes, tasks, resp,
          completed, apc, acode, afutures, aresults, aret>>

----------------------------------------------------------------------------
(* Program constants *)

CACHE_TTL == 30

(* Bounds of the model *)

MaxTime == 45
MaxCalls == 2

Codes == {"c1", "c2"}
Threads == {"t1", "t2"}
TickSteps == {15}

----------------------------------------------------------------------------
(* Values *)

None == [none |-> TRUE]        \* Python None
NoHolder == "free"
Running == [running |-> TRUE]  \* a submitted future that has not finished

(* What an adapter returns: None on any failure, else a dict. *)
EstimateDicts ==
    [name: {"", "E"}, dwjz: {0}, gsz: {0, 1, 2}, gszzl: {0, 1},
     gztime: {"", "g1"}]
NavDicts ==
    [dwjz: {-1, 0, 3}, jzzzl: {-2, 0}, fsrq: {"", "d1"}]
DetailDicts ==
    [name: {"", "D"}, type: {"", "T"}, dwjz: {0, 4}, gsz: {0, 1, 2},
     gszzl: {0, 3}, gztime: {"", "g2"}]

fetch_tiantian_estimate == EstimateDicts \cup {None}
fetch_eastmoney_nav == NavDicts \cup {None}
fetch_eastmoney_detail == DetailDicts \cup {None}

(* Python truthiness of an adapter result / cached dict: None is falsy, a  *)
(* dict with keys is truthy.                                               *)
Truthy(d) == d # None

cache_key(c) == <<"fund", c>>
CacheKeys == {cache_key(c) : c \in Codes}

----------------------------------------------------------------------------
(* get_fund_data, lines 156-205: the merge *)

(* Mutant: a source counts as available only if it carried a value. *)
InitialResult_ByValue(c, estimate, nav, detail, t) ==
    [code |-> c, name |-> "", type |-> "",
     nav |-> 0, navDate |-> "", navChange |-> 0,
     estimate |-> 0, estimateTime |-> "", estimateChange |-> 0,
     currentValue |-> 0, dayChange |-> 0,
     sources |-> [estimate |-> estimate # None /\ estimate.gsz > 0,
                  nav |-> nav # None /\ nav.dwjz > 0,
                  detail |-> detail # None],
     updateTime |-> t]

InitialResult(c, estimate, nav, detail, t) ==
    [code |-> c, name |-> "", type |-> "",
     nav |-> 0, navDate |-> "", navChange |-> 0,
     estimate |-> 0, estimateTime |-> "", estimateChange |-> 0,
     currentValue |-> 0, dayChange |-> 0,
     sources |-> [estimate |-> estimate # None,
                  nav |-> nav # None,
                  detail |-> detail # None],
     updateTime |-> t]

(* Mutant: the detail record's unit net value is taken as published. *)
FillDetail_WithNav(r, detail) ==
    IF Truthy(detail)
    THEN [r EXCEPT !.name = detail.name,
                   !.type = detail.type,
                   !.nav = detail.dwjz,
                   !.estimate = detail.gsz,
                   !.estimateTime = detail.gztime,
                   !.estimateChange = detail.gszzl]
    ELSE r

FillDetail(r, detail) ==
    IF Truthy(detail)
    THEN [r EXCEPT !.name = detail.name,
                   !.type = detail.type,
                   !.estimate = detail.gsz,
                   !.estimateTime = detail.gztime,
                   !.estimateChange = detail.gszzl]
    ELSE r

(* Mutant: the estimate record's name replaces the detail record's. *)
FillEstimate_NameOverwrites(r, estimate) ==
    IF Truthy(estimate)
    THEN [r EXCEPT !.name = estimate.name,
                   !.estimate = estimate.gsz,
                   !.estimateTime = estimate.gztime,
                   !.estimateChange = estimate.gszzl]
    ELSE r

FillEstimate(r, estimate) ==
    IF Truthy(estimate)
    THEN [r EXCEPT !.name = IF r.name # "" THEN r.name ELSE estimate.name,
                   !.estimate = estimate.gsz,
                   !.estimateTime = estimate.gztime,
                   !.estimateChange = estimate.gszzl]
    ELSE r

FillNav(r, nav) ==
    IF Truthy(nav)
    THEN [r EXCEPT !.nav = nav.dwjz,
                   !.navDate = nav.fsrq,
                   !.navChange = nav.jzzzl]
    ELSE r

(* Mutant: the estimate is preferred whenever there is one. *)
SelectValue_EstimateFirst(r) ==
    IF r.estimate > 0
    THEN [r EXCEPT !.currentValue = r.estimate,
                   !.dayChange = r.estimateChange]
    ELSE IF r.nav > 0
    THEN [r EXCEPT !.currentValue = r.nav, !.dayChange = r.navChange]
    ELSE r

(* Mutant: the fallback keeps the published change. *)
SelectValue_WrongSide(r) ==
    IF r.nav > 0
    THEN [r EXCEPT !.currentValue = r.nav, !.dayChange = r.navChange]
    ELSE IF r.estimate > 0
    THEN [r EXCEPT !.currentValue = r.estimate, !.dayChange = r.navChange]
    ELSE r

(* Mutant: late in the clock range the estimate is taken as more recent. *)
SelectValue_ByRecency(r) ==
    IF r.nav > 0 /\ (r.estimate <= 0 \/ r.updateTime < MaxTime)
    THEN [r EXCEPT !.currentValue = r.nav, !.dayChange = r.navChange]
    ELSE IF r.estimate > 0
    THEN [r EXCEPT !.currentValue = r.estimate,
                   !.dayChange = r.estimateChange]
    ELSE r

SelectValue(r) ==
    IF r.nav > 0
    THEN [r EXCEPT !.currentValue = r.nav, !.dayChange = r.navChange]
    ELSE IF r.estimate > 0
    THEN [r EXCEPT !.currentValue = r.estimate,
                   !.dayChange = r.estimateChange]
    ELSE r

Merge(c, estimate, nav, detail, t) ==
    SelectValue(
      FillNav(
        FillEstimate(
          FillDetail(InitialResult(c, estimate, nav, detail, t), detail),
          estimate),
        nav))

----------------------------------------------------------------------------
(* get_cached, lines 36-43 *)

NoEntry == [absent |-> TRUE]   \* `key not in cache`

(* Mutant: an entry exactly CACHE_TTL old still counts as fresh. *)
Fresh_Inclusive(item, t) == t - item.timestamp <= CACHE_TTL

Fresh(item, t) == t - item.timestamp < CACHE_TTL

Lookup(c, k, t) ==
    IF c[k] # NoEntry /\ Fresh(c[k], t) THEN c[k].data ELSE None

(* Mutant: a record without any available source is not stored. *)
Store_SkipEmpty(c, k, data, t) ==
    IF \E a \in {"estimate", "nav", "detail"} : data.sources[a]
    THEN [c EXCEPT ![k] = [data |-> data, timestamp |-> t]]
    ELSE c

(* Mutant: the dict is replaced by one holding the new entry alone. *)
Store_Alone(c, k, data, t) ==
    [j \in DOMAIN c |->
        IF j = k THEN [data |-> data, timestamp |-> t] ELSE NoEntry]

(* len(cache), as reported by the health route, line 263. *)
cache_size(c) == Cardinality({k \in DOMAIN c : c[k] # NoEntry})

(* set_cache, lines 46-52 *)
Store(c, k, data, t) ==
    [c EXCEPT ![k] = [data |-> data, timestamp |-> t]]

----------------------------------------------------------------------------
(* Request threads running get_fund_data *)

NotSubmitted == [submitted |-> FALSE]
NoFutures ==
    [estimate |-> NotSubmitted, nav |-> NotSubmitted, detail |-> NotSubmitted]
AllRunning == [estimate |-> Running, nav |-> Running, detail |-> Running]
Adapters == {"estimate", "nav", "detail"}
Raised == [raised |-> TRUE]
NothingSeen == [read |-> FALSE]
NoCode == ""                   \* the thread is not inside a call

Finished(f) == f # Running /\ f # NotSubmitted
InFlight(t) == pc[t] \in {"wait", "set_cache", "sc_locked"}

(* No fetch_fund_data call of fund_api.py is in progress. *)
ApiIdle ==
    /\ apc = "idle"
    /\ acode = NoCode
    /\ afutures = <<>>
    /\ aresults = <<>>
    /\ aret = None

(* A request thread enters get_fund_data(c), line 135. *)
Call(t, c) ==
    /\ pc[t] = "idle"
    /\ calls < MaxCalls
    /\ calls' = calls + 1
    /\ pc' = [pc EXCEPT ![t] = "get_cached"]
    /\ code' = [code EXCEPT ![t] = c]
    /\ cached' = [cached EXCEPT ![t] = None]
    /\ fut' = [fut EXCEPT ![t] = NoFutures]
    /\ result' = [result EXCEPT ![t] = None]
    /\ ret' = [ret EXCEPT ![t] = None]
    /\ fetches' = [fetches EXCEPT ![t] = 0]
    /\ seen' = [seen EXCEPT ![t] = NothingSeen]
    /\ UNCHANGED batchVars
    /\ UNCHANGED apiVars
    /\ UNCHANGED <<now, cache, completed, cache_lock, launches>>

(* Mutant: the body of get_cached is entered without taking the lock. *)
get_cached_acquire_Unlocked(t) ==
    /\ pc[t] = "get_cached"
    /\ pc' = [pc EXCEPT ![t] = "gc_locked"]
    /\ UNCHANGED batchVars
    /\ UNCHANGED apiVars
    /\ UNCHANGED <<now, cache, completed, cache_lock,
                   code, cached, fut, result, ret, calls,
                   launches, fetches, seen>>

(* get_cached: `with cache_lock:` entered, line 38. *)
get_cached_acquire(t) ==
    /\ pc[t] = "get_cached"
    /\ cache_lock = NoHolder
    /\ cache_lock' = t
    /\ pc' = [pc EXCEPT ![t] = "gc_locked"]
    /\ UNCHANGED batchVars
    /\ UNCHANGED apiVars
    /\ UNCHANGED <<now, cache, completed,
                   code, cached, fut, result, ret, calls,
                   launches, fetches, seen>>

(* Mutant: a read that finds an expired entry deletes it. *)
get_cached_Evict(t) ==
    /\ pc[t] = "gc_locked"
    /\ cache_lock = t
    /\ LET k == cache_key(code[t])
           v == Lookup(cache, k, now)
       IN /\ cached' = [cached EXCEPT ![t] = v]
          /\ seen' = [seen EXCEPT ![t] =
                         IF cache[k] = NoEntry
                         THEN [read |-> TRUE, present |-> FALSE]
                         ELSE [read |-> TRUE, present |-> TRUE,
                               age |-> now - cache[k].timestamp,
                               data |-> cache[k].data]]
          /\ cache' = IF cache[k] # NoEntry /\ ~Fresh(cache[k], now)
                      THEN [cache EXCEPT ![k] = NoEntry]
                      ELSE cache
          /\ IF Truthy(v)
             THEN /\ pc' = [pc EXCEPT ![t] = "done"]
                  /\ ret' = [ret EXCEPT ![t] = v]
             ELSE /\ pc' = [pc EXCEPT ![t] = "submit"]
                  /\ ret' = ret
    /\ cache_lock' = NoHolder
    /\ UNCHANGED batchVars
    /\ UNCHANGED apiVars
    /\ UNCHANGED <<now, completed,
                   code, fut, result, calls, launches, fetches>>

(* get_cached body and return, lines 39-43, then `if cached: return       *)
(* cached`, lines 141-143.                                                *)
get_cached(t) ==
    /\ pc[t] = "gc_locked"
    /\ cache_lock = t
    /\ LET k == cache_key(code[t])
           v == Lookup(cache, k, now)
       IN /\ cached' = [cached EXCEPT ![t] = v]
          /\ seen' = [seen EXCEPT ![t] =
                         IF cache[k] = NoEntry
                         THEN [read |-> TRUE, present |-> FALSE]
                         ELSE [read |-> TRUE, present |-> TRUE,
                               age |-> now - cache[k].timestamp,
                               data |-> cache[k].data]]
          /\ IF Truthy(v)
             THEN /\ pc' = [pc EXCEPT ![t] = "done"]
                  /\ ret' = [ret EXCEPT ![t] = v]
             ELSE /\ pc' = [pc EXCEPT ![t] = "submit"]
                  /\ ret' = ret
    /\ cache_lock' = NoHolder
    /\ UNCHANGED batchVars
    /\ UNCHANGED apiVars
    /\ UNCHANGED <<now, cache, completed,
                   code, fut, result, calls, launches, fetches>>

(* The three executor.submit calls, lines 146-149. *)
Submit(t) ==
    /\ pc[t] = "submit"
    /\ fut' = [fut EXCEPT ![t] = AllRunning]
    /\ launches' = [launches EXCEPT ![code[t]] = @ + 1]
    /\ fetches' = [fetches EXCEPT ![t] = @ + 1]
    /\ pc' = [pc EXCEPT ![t] = "wait"]
    /\ UNCHANGED batchVars
    /\ UNCHANGED apiVars
    /\ UNCHANGED <<now, cache, completed,
                   cache_lock, code, cached, result, ret, calls,
                   seen>>

(* Mutant: the failure is written to the cache before it propagates. *)
SubmitRaises_StoresError(t) ==
    /\ pc[t] = "submit"
    /\ pc' = [pc EXCEPT ![t] = "raised"]
    /\ ret' = [ret EXCEPT ![t] = Raised]
    /\ cache' = Store(cache, cache_key(code[t]), Raised, now)
    /\ UNCHANGED batchVars
    /\ UNCHANGED apiVars
    /\ UNCHANGED <<now, completed,
                   cache_lock, code, cached, fut, result, calls,
                   launches, fetches, seen>>

(* executor.submit cannot start a worker thread and raises (RuntimeError),  *)
(* line 147: get_fund_data propagates the exception.                        *)
SubmitRaises(t) ==
    /\ pc[t] = "submit"
    /\ pc' = [pc EXCEPT ![t] = "raised"]
    /\ ret' = [ret EXCEPT ![t] = Raised]
    /\ UNCHANGED batchVars
    /\ UNCHANGED apiVars
    /\ UNCHANGED <<now, cache, completed,
                   cache_lock, code, cached, fut, result, calls,
                   launches, fetches, seen>>

(* One adapter of the call returns outcome o (None or a dict). *)
AdapterReturns(t, a, o) ==
    /\ pc[t] = "wait"
    /\ fut[t][a] = Running
    /\ fut' = [fut EXCEPT ![t][a] = o]
    /\ UNCHANGED batchVars
    /\ UNCHANGED apiVars
    /\ UNCHANGED <<now, cache, completed,
                   cache_lock, pc, code, cached, result, ret,
                   calls, launches, fetches, seen>>

(* The three future.result() calls return and the pool is shut down, lines *)
(* 151-153; the merge, lines 156-205.                                      *)
Join(t) ==
    /\ pc[t] = "wait"
    /\ \A a \in Adapters : Finished(fut[t][a])
    /\ result' = [result EXCEPT ![t] =
                     Merge(code[t], fut[t].estimate, fut[t].nav,
                           fut[t].detail, now)]
    /\ pc' = [pc EXCEPT ![t] = "set_cache"]
    /\ UNCHANGED batchVars
    /\ UNCHANGED apiVars
    /\ UNCHANGED <<now, cache, completed,
                   cache_lock, code, cached, fut, ret, calls,
                   launches, fetches, seen>>

(* set_cache: `with cache_lock:` entered, line 48. *)
set_cache_acquire(t) ==
    /\ pc[t] = "set_cache"
    /\ cache_lock = NoHolder
    /\ cache_lock' = t
    /\ pc' = [pc EXCEPT ![t] = "sc_locked"]
    /\ UNCHANGED batchVars
    /\ UNCHANGED apiVars
    /\ UNCHANGED <<now, cache, completed,
                   code, cached, fut, result, ret, calls,
                   launches, fetches, seen>>

(* Mutant: set_cache returns without releasing the lock. *)
set_cache_KeepsLock(t) ==
    /\ pc[t] = "sc_locked"
    /\ cache_lock = t
    /\ cache' = Store(cache, cache_key(code[t]), result[t], now)
    /\ completed' = completed \cup {cache_key(code[t])}
    /\ cache_lock' = cache_lock
    /\ pc' = [pc EXCEPT ![t] = "done"]
    /\ ret' = [ret EXCEPT ![t] = result[t]]
    /\ UNCHANGED batchVars
    /\ UNCHANGED apiVars
    /\ UNCHANGED <<now, code, cached, fut, result, calls, launches, fetches,
                   seen>>

(* set_cache body, lines 49-52, and `return result`, line 208. *)
set_cache(t) ==
    /\ pc[t] = "sc_locked"
    /\ cache_lock = t
    /\ cache' = Store(cache, cache_key(code[t]), result[t], now)
    /\ completed' = completed \cup {cache_key(code[t])}
    /\ cache_lock' = NoHolder
    /\ pc' = [pc EXCEPT ![t] = "done"]
    /\ ret' = [ret EXCEPT ![t] = result[t]]
    /\ UNCHANGED batchVars
    /\ UNCHANGED apiVars
    /\ UNCHANGED <<now, code, cached, fut, result, calls, launches, fetches,
                   seen>>

(* The route get_fund (lines 213-220) has sent its response; the thread    *)
(* serves the next request.                                                *)
Respond(t) ==
    /\ pc[t] \in {"done", "raised"}
    /\ pc' = [pc EXCEPT ![t] = "idle"]
    /\ code' = [code EXCEPT ![t] = NoCode]
    /\ cached' = [cached EXCEPT ![t] = None]
    /\ fut' = [fut EXCEPT ![t] = NoFutures]
    /\ result' = [result EXCEPT ![t] = None]
    /\ ret' = [ret EXCEPT ![t] = None]
    /\ fetches' = [fetches EXCEPT ![t] = 0]
    /\ seen' = [seen EXCEPT ![t] = NothingSeen]
    /\ UNCHANGED batchVars
    /\ UNCHANGED apiVars
    /\ UNCHANGED <<now, cache, completed, cache_lock, calls, launches>>

(* Time passes. *)
Tick(d) ==
    /\ now + d <= MaxTime
    /\ now' = now + d
    /\ UNCHANGED batchVars
    /\ UNCHANGED apiVars
    /\ UNCHANGED <<cache, completed,
                   cache_lock, pc, code, cached, fut, result, ret,
                   calls, launches, fetches, seen>>

----------------------------------------------------------------------------
(* No get_funds request is being served. *)
BatchIdle ==
    /\ bpc = "idle"
    /\ raw = <<>>
    /\ codes = <<>>
    /\ tasks = <<>>
    /\ resp = None

----------------------------------------------------------------------------
(* The server: request threads calling get_fund_data concurrently.  The    *)
(* upstream answers are drawn from a few adapter outcomes: the estimate    *)
(* and the NAV provider each answer or fail, the detail provider is down,  *)
(* so that a call sees anything from a full record to a total outage.      *)
(* Every combination of adapter outcomes is covered by SpecMerge below.    *)

FeedEstimate ==
    {None, [name |-> "E", dwjz |-> 0, gsz |-> 1, gszzl |-> 1, gztime |-> "g1"]}
FeedNav ==
    {None, [dwjz |-> 3, jzzzl |-> -2, fsrq |-> "d1"]}
FeedDetail == {None}

Init ==
    /\ now = 0
    /\ cache = [k \in CacheKeys |-> NoEntry]
    /\ completed = {}
    /\ cache_lock = NoHolder
    /\ pc = [t \in Threads |-> "idle"]
    /\ code = [t \in Threads |-> NoCode]
    /\ cached = [t \in Threads |-> None]
    /\ fut = [t \in Threads |-> NoFutures]
    /\ result = [t \in Threads |-> None]
    /\ ret = [t \in Threads |-> None]
    /\ calls = 0
    /\ launches = [c \in Codes |-> 0]
    /\ fetches = [t \in Threads |-> 0]
    /\ seen = [t \in Threads |-> NothingSeen]
    /\ BatchIdle
    /\ ApiIdle

Next ==
    \/ \E t \in Threads, c \in Codes : Call(t, c)
    \/ \E t \in Threads : get_cached_acquire(t)
    \/ \E t \in Threads : get_cached(t)
    \/ \E t \in Threads : Submit(t)
    \/ \E t \in Threads : SubmitRaises(t)
    \/ \E t \in Threads, o \in FeedEstimate : AdapterReturns(t, "estimate", o)
    \/ \E t \in Threads, o \in FeedNav : AdapterReturns(t, "nav", o)
    \/ \E t \in Threads, o \in FeedDetail : AdapterReturns(t, "detail", o)
    \/ \E t \in Threads : Join(t)
    \/ \E t \in Threads : set_cache_acquire(t)
    \/ \E t \in Threads : set_cache(t)
    \/ \E t \in Threads : Respond(t)
    \/ \E d \in TickSteps : Tick(d)

Spec == Init /\ [][Next]_vars

----------------------------------------------------------------------------
(* The merge on its own: two calls for the same code whose adapters have   *)
(* all returned the same outcomes, drawn from every combination of adapter *)
(* results; each call then runs the merge, at the same or a later time.    *)

MergeStart == MaxTime - 15

InitMerge ==
    /\ now = MergeStart
    /\ cache = [k \in CacheKeys |-> NoEntry]
    /\ completed = {}
    /\ cache_lock = NoHolder
    /\ pc = [t \in Threads |-> "wait"]
    /\ \E c \in Codes : code = [t \in Threads |-> c]
    /\ cached = [t \in Threads |-> None]
    /\ \E e \in fetch_tiantian_estimate, n \in fetch_eastmoney_nav,
          d \in fetch_eastmoney_detail :
          fut = [t \in Threads |-> [estimate |-> e, nav |-> n, detail |-> d]]
    /\ result = [t \in Threads |-> None]
    /\ ret = [t \in Threads |-> None]
    /\ calls = Cardinality(Threads)
    /\ \E c \in Codes :
          /\ c = code["t1"]
          /\ launches = [x \in Codes |->
                           IF x = c THEN Cardinality(Threads) ELSE 0]
    /\ fetches = [t \in Threads |-> 1]
    /\ seen = [t \in Threads |-> [read |-> TRUE, present |-> FALSE]]
    /\ BatchIdle
    /\ ApiIdle

NextMerge ==
    \/ \E t \in Threads : Join(t)
    \/ \E d \in TickSteps : Tick(d)

SpecMerge == InitMerge /\ [][NextMerge]_vars

----------------------------------------------------------------------------
(* get_funds, lines 223-254: the batch route *)

MAX_CODES == 50     \* `if len(codes) > 50`
MAX_WORKERS == 10   \* ThreadPoolExecutor(max_workers=10)

(* The pieces of the `codes` argument between commas. *)
Tokens == {"", " ", "c1", " c1 ", "c2"}

(* str.strip on those pieces *)
strip(tok) ==
    CASE tok = " " -> ""
      [] tok = " c1 " -> "c1"
      [] OTHER -> tok

(* [c.strip() for c in codes if c.strip()], line 227 *)
RECURSIVE StripNonBlank(_)
StripNonBlank(toks) ==
    IF toks = <<>>
    THEN <<>>
    ELSE IF strip(Head(toks)) # ""
    THEN <<strip(Head(toks))>> \o StripNonBlank(Tail(toks))
    ELSE StripNonBlank(Tail(toks))

(* Mutant: a list of exactly MAX_CODES codes is refused too. *)
TooMany_Inclusive(cs) == Len(cs) >= MAX_CODES

(* `if len(codes) > 50`, line 235 *)
TooMany(cs) == Len(cs) > MAX_CODES

EmptyError == [success |-> FALSE, error |-> "no codes"]
TooManyError == [success |-> FALSE, error |-> "too many codes"]
ErrorEntry == [error |-> "raised"]

Queued == [st |-> "queued"]
Fetching == [st |-> "fetching", pending |-> Adapters]
TaskRaised == [st |-> "raised"]
TaskDone(r) == [st |-> "done", ret |-> r]

InProgress == {i \in DOMAIN tasks : tasks[i].st = "fetching"}
Settled(i) == tasks[i].st \in {"done", "raised"}

(* Mutant: the pool starts a worker for every submitted call. *)
WorkerFree_Unbounded(n) == TRUE

(* The pool runs at most max_workers calls at a time, line 242. *)
WorkerFree(n) == n < MAX_WORKERS

(* get_funds rejects the request, lines 226-239. *)
GetFundsReject(toks) ==
    /\ bpc = "idle"
    /\ LET cs == StripNonBlank(toks)
       IN /\ cs = <<>> \/ TooMany(cs)
          /\ codes' = cs
          /\ resp' = IF cs = <<>> THEN EmptyError ELSE TooManyError
    /\ raw' = toks
    /\ bpc' = "responded"
    /\ UNCHANGED tasks
    /\ UNCHANGED threadVars
    /\ UNCHANGED apiVars
    /\ UNCHANGED <<now, cache, completed, cache_lock, launches>>

(* get_funds accepts the request and submits one get_fund_data call per    *)
(* code to the pool, lines 226-243.                                        *)
GetFundsAccept(toks) ==
    /\ bpc = "idle"
    /\ LET cs == StripNonBlank(toks)
       IN /\ cs # <<>>
          /\ ~TooMany(cs)
          /\ codes' = cs
          /\ tasks' = [i \in 1..Len(cs) |-> Queued]
    /\ raw' = toks
    /\ bpc' = "pool"
    /\ UNCHANGED resp
    /\ UNCHANGED threadVars
    /\ UNCHANGED apiVars
    /\ UNCHANGED <<now, cache, completed, cache_lock, launches>>

(* The next queued call is at the head of the pool's work queue. *)
NextQueued(i) ==
    /\ i \in DOMAIN tasks
    /\ tasks[i] = Queued
    /\ \A j \in 1..(i - 1) : tasks[j] # Queued

(* A pool worker takes the next call and runs get_fund_data up to the      *)
(* fetch, lines 140-149: a fresh entry is returned at once.                *)
TaskHit(i) ==
    /\ bpc = "pool"
    /\ NextQueued(i)
    /\ WorkerFree(Cardinality(InProgress))
    /\ cache_lock = NoHolder
    /\ LET v == Lookup(cache, cache_key(codes[i]), now)
       IN /\ Truthy(v)
          /\ tasks' = [tasks EXCEPT ![i] = TaskDone(v)]
    /\ UNCHANGED <<bpc, raw, codes, resp>>
    /\ UNCHANGED threadVars
    /\ UNCHANGED apiVars
    /\ UNCHANGED <<now, cache, completed, cache_lock, launches>>

(* ... without a fresh entry the three adapters are launched. *)
TaskMiss(i) ==
    /\ bpc = "pool"
    /\ NextQueued(i)
    /\ WorkerFree(Cardinality(InProgress))
    /\ cache_lock = NoHolder
    /\ ~Truthy(Lookup(cache, cache_key(codes[i]), now))
    /\ tasks' = [tasks EXCEPT ![i] = Fetching]
    /\ launches' = [launches EXCEPT ![codes[i]] = @ + 1]
    /\ UNCHANGED <<bpc, raw, codes, resp>>
    /\ UNCHANGED threadVars
    /\ UNCHANGED apiVars
    /\ UNCHANGED <<now, cache, completed, cache_lock>>

(* ... or executor.submit raises inside get_fund_data, line 147. *)
TaskRaises(i) ==
    /\ bpc = "pool"
    /\ NextQueued(i)
    /\ WorkerFree(Cardinality(InProgress))
    /\ cache_lock = NoHolder
    /\ ~Truthy(Lookup(cache, cache_key(codes[i]), now))
    /\ tasks' = [tasks EXCEPT ![i] = TaskRaised]
    /\ UNCHANGED <<bpc, raw, codes, resp>>
    /\ UNCHANGED threadVars
    /\ UNCHANGED apiVars
    /\ UNCHANGED <<now, cache, completed, cache_lock, launches>>

(* The adapters of a pooled call have returned e, n and d: the call merges *)
(* them, stores the record and returns it, lines 151-208.                  *)
TaskFinish(i, e, n, d) ==
    /\ bpc = "pool"
    /\ i \in InProgress
    /\ cache_lock = NoHolder
    /\ LET r == Merge(codes[i], e, n, d, now)
       IN /\ cache' = Store(cache, cache_key(codes[i]), r, now)
          /\ completed' = completed \cup {cache_key(codes[i])}
          /\ tasks' = [tasks EXCEPT ![i] = TaskDone(r)]
    /\ UNCHANGED <<bpc, raw, codes, resp>>
    /\ UNCHANGED threadVars
    /\ UNCHANGED apiVars
    /\ UNCHANGED <<now, cache_lock, launches>>

(* Mutant: the first call that raised ends the loop. *)
RECURSIVE Collect_Abort(_, _, _)
Collect_Abort(cs, ts, results) ==
    IF cs = <<>> \/ Head(ts).st = "raised"
    THEN results
    ELSE Collect_Abort(Tail(cs), Tail(ts),
                       (Head(cs) :> Head(ts).ret) @@ results)

(* The loop over the futures, lines 244-249: results[code] is assigned in  *)
(* submission order, an exception becoming that code's error entry.        *)
RECURSIVE Collect(_, _, _)
Collect(cs, ts, results) ==
    IF cs = <<>>
    THEN results
    ELSE Collect(Tail(cs), Tail(ts),
                 (Head(cs) :> (IF Head(ts).st = "raised"
                               THEN ErrorEntry
                               ELSE Head(ts).ret)) @@ results)

(* Every future has a result: get_funds leaves the pool and responds,      *)
(* lines 244-254.                                                          *)
GetFundsRespond ==
    /\ bpc = "pool"
    /\ \A i \in DOMAIN tasks : Settled(i)
    /\ resp' = [success |-> TRUE, data |-> Collect(codes, tasks, <<>>)]
    /\ bpc' = "responded"
    /\ UNCHANGED <<raw, codes, tasks>>
    /\ UNCHANGED threadVars
    /\ UNCHANGED apiVars
    /\ UNCHANGED <<now, cache, completed, cache_lock, launches>>

Repeat(tok, n) == [i \in 1..n |-> tok]

(* One get_funds request on a fresh server.  The requests are every list   *)
(* of up to MaxShort pieces, a list of one code more than the pool has     *)
(* workers, and a list of one code more than get_funds accepts.  Every     *)
(* adapter answers.                                                        *)
MaxShort == 2

ShortRequests == UNION {[1..n -> Tokens] : n \in 1..MaxShort}
BatchRequests ==
    ShortRequests \cup {Repeat("c1", MAX_WORKERS + 1),
                        Repeat("c1", MAX_CODES + 1)}

UpEstimate ==
    [name |-> "E", dwjz |-> 0, gsz |-> 1, gszzl |-> 1, gztime |-> "g1"]
UpNav == [dwjz |-> 3, jzzzl |-> -2, fsrq |-> "d1"]
UpDetail ==
    [name |-> "D", type |-> "T", dwjz |-> 4, gsz |-> 2, gszzl |-> 3,
     gztime |-> "g2"]

InitBatch ==
    /\ now = 0
    /\ cache = [k \in CacheKeys |-> NoEntry]
    /\ completed = {}
    /\ cache_lock = NoHolder
    /\ pc = [t \in Threads |-> "idle"]
    /\ code = [t \in Threads |-> NoCode]
    /\ cached = [t \in Threads |-> None]
    /\ fut = [t \in Threads |-> NoFutures]
    /\ result = [t \in Threads |-> None]
    /\ ret = [t \in Threads |-> None]
    /\ calls = 0
    /\ launches = [c \in Codes |-> 0]
    /\ fetches = [t \in Threads |-> 0]
    /\ seen = [t \in Threads |-> NothingSeen]
    /\ BatchIdle
    /\ ApiIdle

NextBatch ==
    \/ \E toks \in BatchRequests : GetFundsReject(toks)
    \/ \E toks \in BatchRequests : GetFundsAccept(toks)
    \/ \E i \in DOMAIN tasks : TaskHit(i)
    \/ \E i \in DOMAIN tasks : TaskMiss(i)
    \/ \E i \in DOMAIN tasks : TaskRaises(i)
    \/ \E i \in DOMAIN tasks : TaskFinish(i, UpEstimate, UpNav, UpDetail)
    \/ GetFundsRespond

SpecBatch == InitBatch /\ [][NextBatch]_vars

(* The pre-flight part of get_funds on its own, for requests of every      *)
(* length up to two codes more than get_funds accepts, with blank pieces   *)
(* before and after the codes.                                             *)
PreflightRequests ==
    {Repeat(b1, i) \o Repeat(c, n) \o Repeat(b2, j) :
        <<b1, b2, c>> \in {"", " "} \X {"", " "} \X {"c1", " c1 ", "c2"},
        <<i, j, n>> \in (0..1) \X (0..1) \X (0..(MAX_CODES + 2))}
    \ {<<>>}

NextPreflight ==
    \/ \E toks \in PreflightRequests : GetFundsReject(toks)
    \/ \E toks \in PreflightRequests : GetFundsAccept(toks)

SpecPreflight == InitBatch /\ [][NextPreflight]_vars

----------------------------------------------------------------------------
(* Termination.  Two request threads, each serving one get_fund_data call, *)
(* run next to one get_funds request of up to MaxShort pieces; or the      *)
(* request threads take no call and a get_funds request of one code more   *)
(* than the pool has workers has just been accepted.  Every thread that    *)
(* can take a step eventually takes one, and every adapter returns.        *)

PoolFull == Repeat("c1", MAX_WORKERS + 1)

InitLive ==
    /\ now = 0
    /\ cache = [k \in CacheKeys |-> NoEntry]
    /\ completed = {}
    /\ cache_lock = NoHolder
    /\ pc = [t \in Threads |-> "idle"]
    /\ code = [t \in Threads |-> NoCode]
    /\ cached = [t \in Threads |-> None]
    /\ fut = [t \in Threads |-> NoFutures]
    /\ result = [t \in Threads |-> None]
    /\ ret = [t \in Threads |-> None]
    /\ launches = [c \in Codes |-> 0]
    /\ fetches = [t \in Threads |-> 0]
    /\ seen = [t \in Threads |-> NothingSeen]
    /\ ApiIdle
    /\ \/ calls = 0 /\ BatchIdle
       \/ /\ calls = MaxCalls
          /\ bpc = "pool"
          /\ raw = PoolFull
          /\ codes = PoolFull
          /\ tasks = [i \in 1..Len(PoolFull) |-> Queued]
          /\ resp = None

(* The steps of request thread t inside get_fund_data. *)
ThreadStep(t) ==
    \/ get_cached_acquire(t)
    \/ get_cached(t)
    \/ Submit(t)
    \/ SubmitRaises(t)
    \/ \E o \in FeedEstimate : AdapterReturns(t, "estimate", o)
    \/ \E o \in FeedNav : AdapterReturns(t, "nav", o)
    \/ \E o \in FeedDetail : AdapterReturns(t, "detail", o)
    \/ Join(t)
    \/ set_cache_acquire(t)
    \/ set_cache(t)

(* The steps of the pooled call for the i-th code of a get_funds request.  *)
(* A pooled call that cannot start its worker threads ends at once; only   *)
(* the first MaxShort calls of a request are let fail this way.            *)
TaskStep(i) ==
    \/ TaskHit(i)
    \/ TaskMiss(i)
    \/ TaskFinish(i, UpEstimate, UpNav, UpDetail)

(* Some pool worker takes a step. *)
PoolStep == \E i \in 1..Len(PoolFull) : TaskStep(i)

LiveRequests == {<<"c1", "c2">>, <<" c1 ", "c1">>}

NextLive ==
    \/ \E t \in Threads, c \in Codes : Call(t, c)
    \/ \E t \in Threads : ThreadStep(t)
    \/ \E toks \in LiveRequests : GetFundsAccept(toks)
    \/ PoolStep
    \/ \E i \in 1..MaxShort : TaskRaises(i)
    \/ GetFundsRespond

FairLive ==
    /\ \A t \in Threads : WF_vars(ThreadStep(t))
    /\ WF_vars(PoolStep)
    /\ WF_vars(GetFundsRespond)

SpecLive == InitLive /\ [][NextLive]_vars /\ FairLive

----------------------------------------------------------------------------
(* FundAPI.fetch_fund_data of fund_api.py, lines 173-196: four adapters    *)
(* run in a pool of four workers and are collected as they complete.       *)

Sources == {"tiantian", "eastmoney_nav", "eastmoney_detail", "ant"}

(* What an adapter future can hold once done: the adapter's record, None   *)
(* (the adapter caught its failure, or the reply had no data), or an       *)
(* exception that escaped the adapter.                                     *)
ApiRecord(a, c) == [code |-> c, source |-> a]
ApiOutcomes(a, c) == {None, Raised, ApiRecord(a, c)}

(* The futures as_completed can yield next: done and not yet yielded. *)
as_completed(fs, rs) ==
    {a \in Sources : Finished(fs[a]) /\ a \notin DOMAIN rs}

(* try: results[source] = future.result() / except: results[source] = None *)
Outcome(f) == IF f = Raised THEN None ELSE f

(* Mutant: the loop ends as soon as one future was collected. *)
Exhausted_AtFirst(rs) == DOMAIN rs # {}

(* The for loop over as_completed(futures) ends when every future has been *)
(* yielded.                                                                *)
Exhausted(rs) == DOMAIN rs = Sources

(* results = {} and the four executor.submit calls, lines 178-186. *)
fetch_fund_data(c) ==
    /\ apc = "idle"
    /\ acode' = c
    /\ afutures' = [a \in Sources |-> Running]
    /\ aresults' = <<>>
    /\ apc' = "as_completed"
    /\ UNCHANGED aret
    /\ UNCHANGED threadVars
    /\ UNCHANGED batchVars
    /\ UNCHANGED <<now, cache, completed, cache_lock, launches>>

(* One adapter of the call finishes in its worker thread. *)
ApiAdapterReturns(a, o) ==
    /\ apc = "as_completed"
    /\ afutures[a] = Running
    /\ afutures' = [afutures EXCEPT ![a] = o]
    /\ UNCHANGED <<apc, acode, aresults, aret>>
    /\ UNCHANGED threadVars
    /\ UNCHANGED batchVars
    /\ UNCHANGED <<now, cache, completed, cache_lock, launches>>

(* One iteration of the loop, lines 188-194. *)
ApiCollect(a) ==
    /\ apc = "as_completed"
    /\ a \in as_completed(afutures, aresults)
    /\ aresults' = (a :> Outcome(afutures[a])) @@ aresults
    /\ UNCHANGED <<apc, acode, afutures, aret>>
    /\ UNCHANGED threadVars
    /\ UNCHANGED batchVars
    /\ UNCHANGED <<now, cache, completed, cache_lock, launches>>

(* The loop is over, the executor is shut down, `return results`, line 196. *)
ApiReturn ==
    /\ apc = "as_completed"
    /\ Exhausted(aresults)
    /\ aret' = aresults
    /\ apc' = "returned"
    /\ UNCHANGED <<acode, afutures, aresults>>
    /\ UNCHANGED threadVars
    /\ UNCHANGED batchVars
    /\ UNCHANGED <<now, cache, completed, cache_lock, launches>>

(* Both orchestrators side by side: one fetch_fund_data call, and one      *)
(* get_fund_data call that has just missed the cache and is about to       *)
(* launch its adapters (lines 146-153).                                    *)
InitFetch ==
    /\ now = 0
    /\ cache = [k \in CacheKeys |-> NoEntry]
    /\ completed = {}
    /\ cache_lock = NoHolder
    /\ \E t \in Threads, c \in Codes :
          /\ pc = [u \in Threads |-> IF u = t THEN "submit" ELSE "idle"]
          /\ code = [u \in Threads |-> IF u = t THEN c ELSE NoCode]
          /\ seen = [u \in Threads |->
                        IF u = t THEN [read |-> TRUE, present |-> FALSE]
                        ELSE NothingSeen]
    /\ cached = [t \in Threads |-> None]
    /\ fut = [t \in Threads |-> NoFutures]
    /\ result = [t \in Threads |-> None]
    /\ ret = [t \in Threads |-> None]
    /\ calls = 1
    /\ launches = [c \in Codes |-> 0]
    /\ fetches = [t \in Threads |-> 0]
    /\ BatchIdle
    /\ ApiIdle

NextFetch ==
    \/ \E c \in Codes : fetch_fund_data(c)
    \/ \E a \in Sources : \E o \in ApiOutcomes(a, acode) :
          ApiAdapterReturns(a, o)
    \/ \E a \in Sources : ApiCollect(a)
    \/ ApiReturn
    \/ \E t \in Threads : Submit(t)
    \/ \E t \in Threads, o \in FeedEstimate : AdapterReturns(t, "estimate", o)
    \/ \E t \in Threads, o \in FeedNav : AdapterReturns(t, "nav", o)
    \/ \E t \in Threads, o \in FeedDetail : AdapterReturns(t, "detail", o)
    \/ \E t \in Threads : Join(t)

SpecFetch == InitFetch /\ [][NextFetch]_vars

----------------------------------------------------------------------------
(* Properties of the merge *)

Merged(t) == result[t] # None
Ok(o) == o # None

(* C3: whenever the official NAV adapter returned a published value > 0,   *)
(* the merged currentValue is that value and dayChange is its published    *)
(* change, whatever the estimate and detail adapters returned.             *)
C3_PublishedWins ==
    \A t \in Threads :
        (Merged(t) /\ Ok(fut[t].nav) /\ fut[t].nav.dwjz > 0) =>
            /\ result[t].currentValue = fut[t].nav.dwjz
            /\ result[t].dayChange = fut[t].nav.jzzzl

C3_Witness ==
    \E t \in Threads :
        /\ Merged(t)
        /\ Ok(fut[t].nav) /\ fut[t].nav.dwjz = 3
        /\ Ok(fut[t].estimate) /\ fut[t].estimate.gsz = 2
        /\ Ok(fut[t].detail) /\ fut[t].detail.gsz = 1
        /\ result[t].estimate = 2
        /\ result[t].currentValue = 3

(* C4: without a published value > 0 the recommended value falls back to   *)
(* the merged estimate if that is > 0 and otherwise stays 0; currentValue  *)
(* is always the published value, the estimated value or 0, is a value     *)
(* some adapter carried when it is not 0, and dayChange comes from the     *)
(* same side as currentValue.                                              *)
C4_FallbackAndSentinel ==
    \A t \in Threads :
        Merged(t) =>
        LET r == result[t]
            f == fut[t]
        IN /\ (~Ok(f.nav) \/ f.nav.dwjz <= 0) =>
                  IF r.estimate > 0
                  THEN /\ r.currentValue = r.estimate
                       /\ r.dayChange = r.estimateChange
                  ELSE /\ r.currentValue = 0
                       /\ r.dayChange = 0
           /\ r.currentValue \in {r.nav, r.estimate, 0}
           /\ r.currentValue # 0 =>
                  \/ Ok(f.nav) /\ f.nav.dwjz = r.currentValue
                  \/ Ok(f.estimate) /\ f.estimate.gsz = r.currentValue
                  \/ Ok(f.detail) /\ f.detail.gsz = r.currentValue
           /\ \/ r.currentValue = r.nav /\ r.nav > 0
                  /\ r.dayChange = r.navChange
              \/ r.currentValue = r.estimate /\ r.estimate > 0
                  /\ r.dayChange = r.estimateChange
              \/ r.currentValue = 0 /\ r.dayChange = 0

C4_Witness ==
    \E t \in Threads :
        /\ Merged(t)
        /\ Ok(fut[t].nav) /\ fut[t].nav.dwjz = -1 /\ fut[t].nav.jzzzl = -2
        /\ ~Ok(fut[t].estimate)
        /\ Ok(fut[t].detail) /\ fut[t].detail.gsz = 2
        /\ fut[t].detail.gszzl = 3
        /\ result[t].currentValue = 2
        /\ result[t].dayChange = 3

(* C9: the availability flag of an adapter is true exactly when the        *)
(* adapter returned a record, even an all-empty one, and false exactly     *)
(* when it failed; the merged record carries these flags unchanged.        *)
C9_SourceAvailability ==
    \A t \in Threads :
        Merged(t) =>
            \A a \in Adapters : result[t].sources[a] = Ok(fut[t][a])

C9_Witness ==
    \E t \in Threads :
        /\ Merged(t)
        /\ fut[t].estimate =
              [name |-> "", dwjz |-> 0, gsz |-> 0, gszzl |-> 0, gztime |-> ""]
        /\ fut[t].nav = None
        /\ Ok(fut[t].detail)
        /\ result[t].sources =
              [estimate |-> TRUE, nav |-> FALSE, detail |-> TRUE]

WithoutUpdateTime(r) == [r EXCEPT !.updateTime = 0]

----------------------------------------------------------------------------
(* Properties of the cache and of concurrent get_fund_data calls *)

(* C1 as stated (single-flight): at no time are two fetch pipelines for    *)
(* the same key in flight, whatever the number of concurrent callers.      *)
C1_SingleFlight ==
    \A t, u \in Threads :
        (t # u /\ InFlight(t) /\ InFlight(u)) => code[t] # code[u]

(* C2: a call that finds an entry younger than CACHE_TTL returns exactly   *)
(* the stored record and launches no adapter; a call that finds no entry,  *)
(* or one whose age is CACHE_TTL or more, launches the adapter set exactly *)
(* once before it returns.                                                 *)
C2_CacheFreshness ==
    \A t \in Threads :
        seen[t].read =>
            IF seen[t].present /\ seen[t].age < CACHE_TTL
            THEN /\ pc[t] = "done"
                 /\ ret[t] = seen[t].data
                 /\ fetches[t] = 0
                 /\ fut[t] = NoFutures
            ELSE /\ pc[t] \in {"submit", "raised"} => fetches[t] = 0
                 /\ pc[t] \in {"wait", "set_cache", "sc_locked", "done"} =>
                        fetches[t] = 1
                 /\ pc[t] \in {"submit", "raised", "wait", "set_cache",
                                "sc_locked", "done"}

C2_Witness ==
    \E t \in Threads :
        /\ pc[t] = "done"
        /\ seen[t].read /\ seen[t].present
        /\ seen[t].age = CACHE_TTL
        /\ fetches[t] = 1
        /\ ret[t] # seen[t].data

ZeroRecord(c, t) ==
    [code |-> c, name |-> "", type |-> "",
     nav |-> 0, navDate |-> "", navChange |-> 0,
     estimate |-> 0, estimateTime |-> "", estimateChange |-> 0,
     currentValue |-> 0, dayChange |-> 0,
     sources |-> [estimate |-> FALSE, nav |-> FALSE, detail |-> FALSE],
     updateTime |-> t]

Outage(t) == \A a \in Adapters : fut[t][a] = None

(* C5: when every adapter of a call failed, the call does not raise: it    *)
(* merges to the record with all availability flags false, empty name and  *)
(* type and zero values, stores that record under the code's cache key and *)
(* returns it.                                                             *)
C5_TotalOutage ==
    /\ [](\A t \in Threads :
            Outage(t) =>
                /\ pc[t] \in {"wait", "set_cache", "sc_locked", "done"}
                /\ Merged(t) =>
                       \E u \in 0..now : result[t] = ZeroRecord(code[t], u)
                /\ pc[t] = "done" =>
                       /\ ret[t] = result[t]
                       /\ cache[cache_key(code[t])] # NoEntry)
    /\ [][\A t \in Threads :
            (Outage(t) /\ pc[t] = "sc_locked" /\ pc'[t] = "done") =>
                /\ cache'[cache_key(code[t])] =
                       [data |-> result[t], timestamp |-> now]
                /\ ret'[t] = result[t]]_vars

C5_Witness ==
    \E t \in Threads :
        /\ Outage(t)
        /\ pc[t] = "done"
        /\ ret[t] = ZeroRecord(code[t], ret[t].updateTime)
        /\ cache[cache_key(code[t])].data = ret[t]

----------------------------------------------------------------------------
(* Properties of get_funds *)

(* The pieces of a request that are not blank, counted without strip. *)
NonBlank(toks) == {i \in DOMAIN toks : toks[i] \notin {"", " "}}

(* C6: a request whose list of codes, blank pieces dropped, is empty or    *)
(* longer than 50 gets an error response for the whole call, and the       *)
(* rejecting step submits no get_fund_data call, launches no adapter and   *)
(* leaves the cache as it was; a list of 1 to 50 codes, 50 included, is    *)
(* accepted and one call per code is submitted.                            *)
C6_PreflightValidation ==
    /\ [](bpc # "idle" =>
            LET n == Cardinality(NonBlank(raw))
            IN IF n = 0 \/ n > 50
               THEN /\ bpc = "responded"
                    /\ resp \in {EmptyError, TooManyError}
                    /\ (resp = EmptyError) = (n = 0)
                    /\ tasks = <<>>
                    /\ \A c \in Codes : launches[c] = 0
               ELSE /\ resp \notin {EmptyError, TooManyError}
                    /\ Len(tasks) = n)
    /\ [][(bpc = "idle" /\ bpc' = "responded") =>
            /\ cache' = cache
            /\ launches' = launches
            /\ tasks' = tasks
            /\ fut' = fut]_vars

C6_Witness ==
    /\ bpc = "responded"
    /\ Cardinality(NonBlank(raw)) = 51
    /\ Len(raw) = 53
    /\ resp = TooManyError
    /\ tasks = <<>>

Ids(toks) == {strip(toks[i]) : i \in DOMAIN toks} \ {""}
LastOf(c) ==
    CHOOSE i \in DOMAIN codes :
        codes[i] = c /\ \A j \in DOMAIN codes : j > i => codes[j] # c

(* C7: the response of an accepted request has exactly one entry per       *)
(* distinct requested code; the entry of a code whose call raised is an    *)
(* error entry, and every other entry is the merged record a call for that *)
(* code alone gets, whatever happened to the other codes (for a code       *)
(* requested more than once the entry is that of its last occurrence).     *)
C7_BatchIsolation ==
    (bpc = "responded" /\ Cardinality(NonBlank(raw)) \in 1..50) =>
        /\ resp.success
        /\ DOMAIN resp.data = Ids(raw)
        /\ \A c \in Ids(raw) :
              IF tasks[LastOf(c)].st = "raised"
              THEN resp.data[c] = ErrorEntry
              ELSE resp.data[c] = Merge(c, UpEstimate, UpNav, UpDetail, now)

C7_Witness ==
    /\ bpc = "responded"
    /\ raw = <<"c1", "c2">>
    /\ tasks[1].st = "raised"
    /\ tasks[2].st = "done"
    /\ resp.success
    /\ resp.data["c1"] = ErrorEntry
    /\ resp.data["c2"] # ErrorEntry
    /\ resp.data["c2"].code = "c2"
    /\ resp.data["c2"].currentValue = 3

(* C8: at any moment of a get_funds call at most 10 of its get_fund_data   *)
(* calls are in progress, each with at most 3 adapter fetches outstanding, *)
(* and a queued call is started only while fewer than 10 are in progress.  *)
C8_BoundedConcurrency ==
    /\ [](/\ Cardinality(InProgress) <= 10
          /\ \A i \in InProgress : Cardinality(tasks[i].pending) <= 3)
    /\ [][\A i \in DOMAIN tasks :
            (tasks[i] = Queued /\ tasks'[i] # Queued) =>
                Cardinality(InProgress) < 10]_vars

C8_Witness ==
    /\ Cardinality(InProgress) = 10
    /\ \E i \in DOMAIN tasks : tasks[i] = Queued

----------------------------------------------------------------------------
(* Further properties of the merge *)

(* The first adapter, realtime estimate before detail, that returned a     *)
(* record with an estimated value present (not 0). *)
EstimateSource(f) ==
    IF Ok(f.estimate) /\ f.estimate.gsz # 0 THEN f.estimate
    ELSE IF Ok(f.detail) /\ f.detail.gsz # 0 THEN f.detail
    ELSE None

(* C11 as stated: the merged estimate, estimateTime and estimateChange are *)
(* those of the first adapter, realtime estimate before detail, that       *)
(* returned a record carrying an estimated value; so a realtime record     *)
(* without an estimate leaves the detail record's estimate in place.       *)
C11_EstimateSelection ==
    \A t \in Threads :
        (Merged(t) /\ EstimateSource(fut[t]) # None) =>
            LET src == EstimateSource(fut[t])
            IN /\ result[t].estimate = src.gsz
               /\ result[t].estimateTime = src.gztime
               /\ result[t].estimateChange = src.gszzl

C13_IdentityFallback ==
    \A t \in Threads :
        Merged(t) =>
            LET r == result[t]
                f == fut[t]
            IN /\ r.name =
                    (IF Ok(f.detail) /\ f.detail.name # "" THEN f.detail.name
                     ELSE IF Ok(f.estimate) /\ f.estimate.name # ""
                     THEN f.estimate.name
                     ELSE "")
               /\ r.type = (IF Ok(f.detail) THEN f.detail.type ELSE "")

C13_Witness ==
    \E t \in Threads :
        /\ Merged(t)
        /\ Ok(fut[t].detail) /\ fut[t].detail.name = ""
        /\ fut[t].detail.type = "T"
        /\ Ok(fut[t].estimate) /\ fut[t].estimate.name = "E"
        /\ result[t].name = "E"
        /\ result[t].type = "T"

----------------------------------------------------------------------------
(* Properties of the two orchestrators *)

(* What the caller of fetch_fund_data is owed for a finished future. *)
Recorded(f) == IF f \in {None, Raised} THEN None ELSE f

(* C14: a fetch launches every adapter; it returns only when every adapter *)
(* has finished, with exactly one outcome per adapter under that adapter's *)
(* key: the adapter's record, or None if it failed or raised; an outcome   *)
(* once recorded is never changed by a sibling. The same holds for the     *)
(* three futures of get_fund_data: the merge runs only when all three have *)
(* finished and reports each adapter's own outcome.                        *)
C14_OrchestratorJoin ==
    /\ [](/\ apc # "idle" => DOMAIN afutures = Sources
          /\ apc = "returned" =>
                /\ \A a \in Sources : Finished(afutures[a])
                /\ DOMAIN aret = Sources
                /\ \A a \in Sources : aret[a] = Recorded(afutures[a])
          /\ \A t \in Threads :
                Merged(t) =>
                    \A a \in Adapters :
                        /\ Finished(fut[t][a])
                        /\ result[t].sources[a] = Ok(fut[t][a]))
    /\ [][/\ \A a \in DOMAIN aresults :
                a \in DOMAIN aresults' /\ aresults'[a] = aresults[a]
          /\ \A a \in Sources :
                (apc = "as_completed" /\ Finished(afutures[a])) =>
                    afutures'[a] = afutures[a]]_vars

C14_Witness ==
    /\ apc = "returned"
    /\ afutures["tiantian"] = Raised
    /\ afutures["eastmoney_nav"] = None
    /\ afutures["ant"] = ApiRecord("ant", acode)
    /\ aret["tiantian"] = None
    /\ aret["ant"] = ApiRecord("ant", acode)
    /\ \E t \in Threads :
          Merged(t) /\ ~Ok(fut[t].estimate) /\ Ok(fut[t].nav)

----------------------------------------------------------------------------
(* Properties of the cache and its lock *)

Present(k) == cache[k] # NoEntry
Waiting(t) == pc[t] = "wait" /\ \E a \in Adapters : fut[t][a] = Running

C17_StoreEffectAndFrame ==
    [][\A t \in Threads :
        /\ (pc[t] = "sc_locked" /\ pc'[t] = "done") =>
              \A c \in Codes :
                  cache'[cache_key(c)] =
                      IF c = code[t]
                      THEN [data |-> result[t], timestamp |-> now]
                      ELSE cache[cache_key(c)]
        /\ (pc[t] = "gc_locked" /\ pc'[t] # "gc_locked") =>
              cache' = cache]_vars

C17_Witness ==
    \E t \in Threads : \E c \in Codes :
        /\ pc[t] = "done"
        /\ fetches[t] = 1
        /\ c # code[t]
        /\ Present(cache_key(c))
        /\ cache[cache_key(c)].timestamp < now
        /\ cache[cache_key(code[t])] = [data |-> ret[t], timestamp |-> now]

RecordFields ==
    {"code", "name", "type", "nav", "navDate", "navChange", "estimate",
     "estimateTime", "estimateChange", "currentValue", "dayChange",
     "sources", "updateTime"}

(* A record that went through the whole merge for code c. *)
CompleteRecord(d, c) ==
    /\ DOMAIN d = RecordFields
    /\ d.code = c
    /\ DOMAIN d.sources = Adapters
    /\ d.currentValue =
          (IF d.nav > 0 THEN d.nav
           ELSE IF d.estimate > 0 THEN d.estimate ELSE 0)
    /\ d.updateTime <= now

(* C18: every cache entry under the key of code c holds a complete merged  *)
(* record whose code is c, put there by a fetch-and-merge for c that       *)
(* reached the store; it is never an error marker or None. A call that     *)
(* raises leaves the cache as it was, so a key without a finished          *)
(* fetch-and-merge has no entry and the next call for it misses.           *)
C18_NoErrorCached ==
    /\ [](\A c \in Codes :
            LET k == cache_key(c)
            IN /\ Present(k) =>
                    /\ CompleteRecord(cache[k].data, c)
                    /\ launches[c] >= 1
               /\ Present(k) <=> k \in completed)
    /\ [][\A t \in Threads :
            (pc[t] # "raised" /\ pc'[t] = "raised") => cache' = cache]_vars

C18_Witness ==
    \E t, u \in Threads :
        /\ pc[t] = "raised"
        /\ code[u] = code[t]
        /\ pc[u] = "done"
        /\ fetches[u] = 1
        /\ seen[u] = [read |-> TRUE, present |-> FALSE]
        /\ cache[cache_key(code[t])].data = ret[u]

Expired(k) == Present(k) /\ now - cache[k].timestamp >= CACHE_TTL

(* C19: no step removes a cache entry, expired or not: a key that has an   *)
(* entry keeps one, and an expired entry stays as it is until a store for  *)
(* the same key replaces it; the keys with an entry are exactly the keys   *)
(* for which a fetch-and-merge reached the store, and cache_size counts    *)
(* them, expired ones included.                                            *)
C19_LazyExpiryOnly ==
    /\ [](/\ {k \in CacheKeys : Present(k)} = completed
          /\ cache_size(cache) = Cardinality(completed))
    /\ [][/\ \A k \in CacheKeys : Present(k) => cache'[k] # NoEntry
          /\ completed \subseteq completed'
          /\ \A k \in CacheKeys :
                (Expired(k) /\ cache'[k] # cache[k]) =>
                    \E t \in Threads :
                        /\ cache_key(code[t]) = k
                        /\ pc[t] = "sc_locked"
                        /\ pc'[t] = "done"]_vars

C19_Witness ==
    \E t \in Threads :
        /\ pc[t] = "wait"
        /\ Expired(cache_key(code[t]))
        /\ seen[t].read /\ seen[t].present
        /\ seen[t].age >= CACHE_TTL
        /\ cache_size(cache) = 1

----------------------------------------------------------------------------
(* Termination *)

(* C15: every get_fund_data call that has started ends, by returning a     *)
(* record or, when no worker thread can be started, by raising; every      *)
(* pooled call of an accepted get_funds request is settled and the request *)
(* is answered; a caller waiting for cache_lock or for a pool worker gets  *)
(* it.                                                                     *)
C15_Termination ==
    /\ \A t \in Threads :
          (pc[t] = "get_cached") ~> (pc[t] \in {"done", "raised"})
    /\ (bpc = "pool")
          ~> (bpc = "responded" /\ \A i \in DOMAIN tasks : Settled(i))

C15_Witness ==
    /\ bpc = "responded"
    /\ Len(tasks) = Len(PoolFull)
    /\ \A i \in DOMAIN tasks : Settled(i)

====
